---- MODULE Spec2Model ----
(***************************************************************************)
(* A model of manim/mobject/types/point_cloud_mobject.py: PMobject (a      *)
(* point cloud node: parallel numpy arrays `points` and `rgbas`, a base    *)
(* colour, a stroke width and a list of submobjects) and PGroup.           *)
(*                                                                         *)
(* numpy arrays are modelled with their storage: an attribute holds either *)
(* a freshly allocated array or a view (a basic slice) of another array's  *)
(* buffer.  `store` is the heap of rgba buffers and `rgbas[n]` names the   *)
(* window [lo, hi) of a buffer that node n's attribute denotes.  No method *)
(* of the file writes a `points` array in place (every assignment rebinds  *)
(* the attribute), so `points` holds values.                               *)
(*                                                                         *)
(* A point is <<x, y, z>>.  An rgba is <<r, g, b, a>> in fixed point:      *)
(* One stands for 1.0.                                                     *)
(***************************************************************************)
EXTENDS Integers, Sequences, FiniteSets, TLC

VARIABLES points, rgbas, store, color, stroke_width, submobjects, last, steps

vars == <<points, rgbas, store, color, stroke_width, submobjects, last, steps>>

(* ------------------------------ bounds --------------------------------- *)

\* number of public calls in one behaviour
MaxSteps == 2

\* longest point cloud sort_points is called on
MaxSortLen == 3

(* ----------------------------- universe -------------------------------- *)

Nodes == {1, 2, 3}

BufIds == Nodes

\* 1.0 in fixed point
One == 2 * 2

Half == One \div 2

Colors == {"BLACK", "WHITE", "RED"}

None == "None"

PointPool == {<<0, 0, 0>>, <<0, 1, 0>>, <<1, 0, 0>>}

Min(S) == CHOOSE x \in S : \A y \in S : x <= y

Range(s) == {s[i] : i \in 1..Len(s)}

\* numpy.repeat([v], k, axis=0)
Repeat(v, k) == [i \in 1..k |-> v]

\* a[lower:upper] of a Python sequence, 0 <= lower, 0 <= upper: the bounds are
\* clipped to the length
Clip(len, i) == IF i > len THEN len ELSE i

Slice(s, lower, upper) == SubSeq(s, Clip(Len(s), lower) + 1, Clip(Len(s), upper))

(* ------------------------- colour utilities ---------------------------- *)

color_to_rgb(c) ==
    CASE c = "BLACK" -> <<0, 0, 0>>
      [] c = "WHITE" -> <<One, One, One>>
      [] c = "RED" -> <<One, 0, 0>>

\* color_to_rgba(color, alpha=1)
color_to_rgba(c, alpha) == color_to_rgb(c) \o <<alpha>>

\* interpolate(start, end, alpha) = (1 - alpha) * start + alpha * end
interpolate(start, end, alpha) == ((One - alpha) * start + alpha * end) \div One

interpolate_rgba(start, end, alpha) ==
    [i \in 1..4 |-> interpolate(start[i], end[i], alpha)]

(* ------------------------------ memory --------------------------------- *)

\* The program's memory as one record, so that a method is a function from
\* memory to memory.
Mem == [points |-> points, rgbas |-> rgbas, store |-> store, color |-> color,
        stroke_width |-> stroke_width, submobjects |-> submobjects]

\* the value of node n's rgbas attribute
RgbasOf(m, n) == SubSeq(m.store[m.rgbas[n].b], m.rgbas[n].lo + 1, m.rgbas[n].hi)

\* len(self.points)
get_num_points(m, n) == Len(m.points[n])

\* buffers still referenced once node n lets go of its own
UsedBy(m, others) == {m.rgbas[k].b : k \in others}

\* self.rgbas = <a new array holding arr>
BindRgbas(m, n, arr) ==
    LET used == UsedBy(m, Nodes \ {n})
        b == Min(BufIds \ used)
    IN [m EXCEPT !.rgbas[n] = [b |-> b, lo |-> 0, hi |-> Len(arr)],
                 !.store = [i \in BufIds |-> IF i = b THEN arr
                                             ELSE IF i \in used THEN m.store[i]
                                             ELSE <<>>]]

\* self.rgbas = mobject.rgbas[lower:upper]: a basic slice, a view of the same buffer
BindRgbasView(m, n, mob, lower, upper) ==
    LET v == m.rgbas[mob]
        len == v.hi - v.lo
        lo == v.lo + Clip(len, lower)
        hi == v.lo + Clip(len, upper)
        w == [b |-> v.b, lo |-> lo, hi |-> IF hi < lo THEN lo ELSE hi]
        rg == [m.rgbas EXCEPT ![n] = w]
        used == {rg[k].b : k \in Nodes}
    IN [m EXCEPT !.rgbas = rg,
                 !.store = [i \in BufIds |-> IF i \in used THEN m.store[i] ELSE <<>>]]

\* mob.rgbas[:, :] = rgba: writes through the attribute into its buffer
WriteRgbas(m, n, rgba) ==
    LET v == m.rgbas[n]
    IN [m EXCEPT !.store[v.b] =
            [i \in 1..Len(@) |-> IF v.lo < i /\ i <= v.hi THEN rgba ELSE @[i]]]

\* self.points = arr
BindPoints(m, n, arr) == [m EXCEPT !.points[n] = arr]

Ok(m) == [mem |-> m, raised |-> "none"]

Raise(m, e) == [mem |-> m, raised |-> e]

(* ------------------------------ family --------------------------------- *)

RECURSIVE get_family(_, _)
RECURSIVE FamiliesOf(_, _)

\* Mobject.get_family: self, then the families of the submobjects, depth first
get_family(m, n) == <<n>> \o FamiliesOf(m, m.submobjects[n])

FamiliesOf(m, subs) ==
    IF subs = <<>> THEN <<>>
    ELSE get_family(m, Head(subs)) \o FamiliesOf(m, Tail(subs))

\* Mobject.family_members_with_points
family_members_with_points(m, n) ==
    SelectSeq(get_family(m, n), LAMBDA k : get_num_points(m, k) > 0)

(* ------------------------------ PMobject ------------------------------- *)

\* PMobject.reset_points
reset_points(m, n) == Ok(BindPoints(BindRgbas(m, n, <<>>), n, <<>>))

\* add_points that colours the new points with the base colour whatever the
\* color argument
add_points_base_color(m, n, pts, col, alpha) ==
    LET new == Repeat(color_to_rgba(m.color[n], alpha), Len(pts))
        m1 == BindPoints(m, n, m.points[n] \o pts)
    IN Ok(BindRgbas(m1, n, RgbasOf(m1, n) \o new))

\* PMobject.add_points(points, rgbas=None, color=None, alpha=1)
add_points_colored(m, n, pts, col, alpha) ==
    LET c == IF col # None THEN col ELSE m.color[n]
        new == Repeat(color_to_rgba(c, alpha), Len(pts))
        m1 == BindPoints(m, n, m.points[n] \o pts)
    IN Ok(BindRgbas(m1, n, RgbasOf(m1, n) \o new))

\* PMobject.add_points(points, rgbas)
add_points_rgbas(m, n, pts, new) ==
    LET m1 == BindPoints(m, n, m.points[n] \o pts)
    IN IF Len(new) # Len(pts)
       THEN Raise(m1, "Exception")
       ELSE Ok(BindRgbas(m1, n, RgbasOf(m1, n) \o new))

RECURSIVE WriteAll(_, _, _)

\* for mob in mobs: mob.rgbas[:, :] = rgba
WriteAll(m, mobs, rgba) ==
    IF mobs = <<>> THEN m
    ELSE WriteAll(WriteRgbas(m, Head(mobs), rgba), Tail(mobs), rgba)

\* PMobject.set_color(color, family)
set_color(m, n, col, family) ==
    LET mobs == IF family THEN family_members_with_points(m, n) ELSE <<n>>
        m1 == WriteAll(m, mobs, color_to_rgba(col, One))
    IN Ok([m1 EXCEPT !.color[n] = col])

\* arr[indices] with an integer index array (0-based): a copy
Take(arr, idx) == [i \in 1..Len(idx) |-> arr[idx[i] + 1]]

InBounds(arr, idx) == \A i \in 1..Len(idx) : idx[i] < Len(arr)

\* arr[mask] with a boolean mask as long as arr: a copy
RECURSIVE Compress(_, _)
Compress(arr, mask) ==
    IF arr = <<>> THEN <<>>
    ELSE (IF Head(mask) THEN <<Head(arr)>> ELSE <<>>) \o Compress(Tail(arr), Tail(mask))

\* Mobject.get_array_attrs(self) + ["rgbas"], and Mobject.apply_over_attr_arrays
\* with func = lambda arr: arr[idx]: the arrays are replaced one after the other
apply_index_over_attr_arrays(m, n, idx) ==
    IF ~InBounds(m.points[n], idx) THEN Raise(m, "IndexError")
    ELSE LET m1 == BindPoints(m, n, Take(m.points[n], idx))
         IN IF ~InBounds(RgbasOf(m1, n), idx) THEN Raise(m1, "IndexError")
            ELSE Ok(BindRgbas(m1, n, Take(RgbasOf(m1, n), idx)))

Conditions == {"x_lt_1", "y_lt_1"}

\* condition(p), for the conditions lambda p: p[0] < 1 and lambda p: p[1] < 1
Condition(c, p) == IF c = "x_lt_1" THEN p[1] < 1 ELSE p[2] < 1

\* filter_out without the negation: the points for which the condition holds stay
filter_member_keeping(m, mob, c) ==
    LET mask == [i \in 1..Len(m.points[mob]) |-> Condition(c, m.points[mob][i])]
        m1 == BindPoints(m, mob, Compress(m.points[mob], mask))
    IN IF Len(RgbasOf(m1, mob)) # Len(mask) THEN Raise(m1, "IndexError")
       ELSE Ok(BindRgbas(m1, mob, Compress(RgbasOf(m1, mob), mask)))

\* the body of filter_out's loop for one family member
filter_member(m, mob, c) ==
    LET to_eliminate == [i \in 1..Len(m.points[mob]) |-> ~Condition(c, m.points[mob][i])]
        m1 == BindPoints(m, mob, Compress(m.points[mob], to_eliminate))
    IN IF Len(RgbasOf(m1, mob)) # Len(to_eliminate) THEN Raise(m1, "IndexError")
       ELSE Ok(BindRgbas(m1, mob, Compress(RgbasOf(m1, mob), to_eliminate)))

RECURSIVE filter_loop(_, _, _)
filter_loop(m, mobs, c) ==
    IF mobs = <<>> THEN Ok(m)
    ELSE LET r == filter_member(m, Head(mobs), c)
         IN IF r.raised # "none" THEN r ELSE filter_loop(r.mem, Tail(mobs), c)

\* PMobject.filter_out(condition)
filter_out(m, n, c) == filter_loop(m, family_members_with_points(m, n), c)

\* np.arange(0, num_points, factor), factor >= 1
Arange(num_points, factor) ==
    [i \in 1..((num_points + factor - 1) \div factor) |-> (i - 1) * factor]

\* num_points = self.get_num_points(), read in every round of thin_out's loop
thin_num_points(m, self, mob) == get_num_points(m, self)

RECURSIVE thin_loop(_, _, _, _)
thin_loop(m, self, mobs, factor) ==
    IF mobs = <<>> THEN Ok(m)
    ELSE LET idx == Arange(thin_num_points(m, self, Head(mobs)), factor)
             r == apply_index_over_attr_arrays(m, Head(mobs), idx)
         IN IF r.raised # "none" THEN r ELSE thin_loop(r.mem, self, Tail(mobs), factor)

\* PMobject.thin_out(factor)
thin_out(m, n, factor) == thin_loop(m, n, family_members_with_points(m, n), factor)

Keys == {"x", "y"}

\* function(p), for the functions lambda p: p[0] (the default) and lambda p: p[1]
Key(fn, p) == IF fn = "x" THEN p[1] ELSE p[2]

\* the permutations of 0 .. k-1 as index arrays
IndexPermutations(k) ==
    {idx \in [1..k -> 0..(k - 1)] : \A i, j \in 1..k : i # j => idx[i] # idx[j]}

\* argsort of the negated keys: a descending sort
IsArgsortDescending(idx, pts, fn) ==
    \A i \in 1..(Len(idx) - 1) : Key(fn, pts[idx[i] + 1]) >= Key(fn, pts[idx[i + 1] + 1])

\* what np.argsort(keys) may return: kind defaults to quicksort, which is not
\* stable, so any permutation that sorts the keys
IsArgsort(idx, pts, fn) ==
    \A i \in 1..(Len(idx) - 1) : Key(fn, pts[idx[i] + 1]) <= Key(fn, pts[idx[i + 1] + 1])

\* the permutations of the index ranges sort_points is called on
PermutationTable == UNION {IndexPermutations(k) : k \in 0..MaxSortLen}

\* the index arrays of length k among them
PermutationsOf(k) == {idx \in PermutationTable : Len(idx) = k}

Argsorts(pts, fn) == {idx \in PermutationsOf(Len(pts)) : IsArgsort(idx, pts, fn)}

RECURSIVE sort_loop(_, _, _)
sort_loop(m, mobs, indices) ==
    IF mobs = <<>> THEN Ok(m)
    ELSE LET r == apply_index_over_attr_arrays(m, Head(mobs), indices[Head(mobs)])
         IN IF r.raised # "none" THEN r ELSE sort_loop(r.mem, Tail(mobs), indices)

\* PMobject.sort_points(function); indices[mob] is the result of argsort for mob
sort_points(m, n, indices) == sort_loop(m, family_members_with_points(m, n), indices)

\* interpolate(self.rgbas, color_to_rgba(color), alpha)
fade_rgbas(arr, rgba, alpha) == [i \in 1..Len(arr) |-> interpolate_rgba(arr[i], rgba, alpha)]

\* fade_to that stops below the immediate children
fade_children_only(subs, depth) == IF depth > 0 THEN <<>> ELSE subs

\* the submobjects fade_to recurses into: all of them, at every depth
fade_submobjects(subs, depth) == subs

RECURSIVE fade_to(_, _, _, _, _)
RECURSIVE fade_all(_, _, _, _, _)

\* PMobject.fade_to(color, alpha); depth counts the calls on the stack
fade_to(m, n, col, alpha, depth) ==
    LET m1 == BindRgbas(m, n, fade_rgbas(RgbasOf(m, n), color_to_rgba(col, One), alpha))
    IN fade_all(m1, fade_submobjects(m1.submobjects[n], depth), col, alpha, depth + 1)

fade_all(m, subs, col, alpha, depth) ==
    IF subs = <<>> THEN m
    ELSE fade_all(fade_to(m, Head(subs), col, alpha, depth), Tail(subs), col, alpha, depth)

RECURSIVE merged_points(_, _)
RECURSIVE merged_points_of(_, _)
RECURSIVE merged_rgbas(_, _)
RECURSIVE merged_rgbas_of(_, _)

\* Mobject.get_merged_array("points")
merged_points(m, n) == m.points[n] \o merged_points_of(m, m.submobjects[n])

merged_points_of(m, subs) ==
    IF subs = <<>> THEN <<>>
    ELSE merged_points(m, Head(subs)) \o merged_points_of(m, Tail(subs))

\* Mobject.get_merged_array("rgbas")
merged_rgbas(m, n) == RgbasOf(m, n) \o merged_rgbas_of(m, m.submobjects[n])

merged_rgbas_of(m, subs) ==
    IF subs = <<>> THEN <<>>
    ELSE merged_rgbas(m, Head(subs)) \o merged_rgbas_of(m, Tail(subs))

\* PMobject.ingest_submobjects; without submobjects get_merged_array returns the
\* node's own arrays, and the attributes are set to themselves
ingest_submobjects(m, n) ==
    IF m.submobjects[n] = <<>> THEN Ok(m)
    ELSE LET m1 == BindPoints(m, n, merged_points(m, n))
             m2 == BindRgbas(m1, n, merged_rgbas(m, n))
         IN Ok([m2 EXCEPT !.submobjects[n] = <<>>])

\* stretch_array_to_length(nparray, length): nparray[floor(i * curr_len / length)]
StretchIndices(curr_len, length) == [i \in 1..length |-> ((i - 1) * curr_len) \div length]

\* PMobject.align_points_with_larger(larger_mobject)
align_points_with_larger(m, n, larger) ==
    LET length == get_num_points(m, larger)
        pidx == StretchIndices(Len(m.points[n]), length)
    IN IF Len(m.points[n]) > length THEN Raise(m, "Warning")
       ELSE IF ~InBounds(m.points[n], pidx) THEN Raise(m, "IndexError")
       ELSE LET m1 == BindPoints(m, n, Take(m.points[n], pidx))
                arr == RgbasOf(m1, n)
                ridx == StretchIndices(Len(arr), length)
            IN IF Len(arr) > length THEN Raise(m1, "Warning")
               ELSE IF ~InBounds(arr, ridx) THEN Raise(m1, "IndexError")
               ELSE Ok(BindRgbas(m1, n, Take(arr, ridx)))

\* Mobject.align_data(self, mobject) for two nodes without submobjects:
\* Mobject.align_points stretches the one with fewer points
align_data(m, n, mobject) ==
    IF get_num_points(m, n) < get_num_points(m, mobject)
    THEN align_points_with_larger(m, n, mobject)
    ELSE IF get_num_points(m, mobject) < get_num_points(m, n)
    THEN align_points_with_larger(m, mobject, n)
    ELSE Ok(m)

\* PMobject.match_colors(mobject)
match_colors(m, n, mobject) ==
    LET r == align_data(m, n, mobject)
    IN IF r.raised # "none" THEN r
       ELSE Ok(BindRgbas(r.mem, n, RgbasOf(r.mem, mobject)))

RECURSIVE set_stroke_width_all(_, _, _)
set_stroke_width_all(m, mobs, width) ==
    IF mobs = <<>> THEN m
    ELSE set_stroke_width_all([m EXCEPT !.stroke_width[Head(mobs)] = width], Tail(mobs), width)

\* PMobject.set_stroke_width(width, family=True)
set_stroke_width(m, n, width) ==
    set_stroke_width_all(m, family_members_with_points(m, n), width)

\* PMobject.interpolate_color(mobject1, mobject2, alpha); numpy broadcasts an
\* array of one row against the other and refuses other unequal lengths
interpolate_color(m, n, mobject1, mobject2, alpha) ==
    LET a1 == RgbasOf(m, mobject1)
        a2 == RgbasOf(m, mobject2)
        len == IF Len(a1) = 1 THEN Len(a2) ELSE Len(a1)
        row(arr, i) == IF Len(arr) = 1 THEN arr[1] ELSE arr[i]
        new == [i \in 1..len |-> interpolate_rgba(row(a1, i), row(a2, i), alpha)]
        m1 == BindRgbas(m, n, new)
        width == interpolate(m.stroke_width[mobject1], m.stroke_width[mobject2], alpha)
    IN IF Len(a1) # Len(a2) /\ Len(a1) # 1 /\ Len(a2) # 1 THEN Raise(m, "ValueError")
       ELSE Ok(set_stroke_width(m1, n, width))

\* int(x * mobject.get_num_points()) for x = num / One
partial_index(num, num_points) == (num * num_points) \div One

\* pointwise_become_partial with the indices taken from self's number of points
pointwise_become_partial_own_count(m, n, mobject, a, b) ==
    LET lower_index == partial_index(a, get_num_points(m, n))
        upper_index == partial_index(b, get_num_points(m, n))
        m1 == BindPoints(m, n, Slice(m.points[mobject], lower_index, upper_index))
    IN Ok(BindRgbasView(m1, n, mobject, lower_index, upper_index))

\* PMobject.pointwise_become_partial(mobject, a, b); a and b in units of 1 / One
pointwise_become_partial(m, n, mobject, a, b) ==
    LET lower_index == partial_index(a, get_num_points(m, mobject))
        upper_index == partial_index(b, get_num_points(m, mobject))
        m1 == BindPoints(m, n, Slice(m.points[mobject], lower_index, upper_index))
    IN Ok(BindRgbasView(m1, n, mobject, lower_index, upper_index))

\* PMobject.point_from_proportion(alpha).  alpha is a Python number: an int
\* (kind "int", value num) or a float (kind "float", value num / One).  An int
\* index is looked up (a negative one from the end); numpy refuses a float index.
point_from_proportion(m, n, alpha) ==
    LET index == alpha.num * (get_num_points(m, n) - 1)
        len == get_num_points(m, n)
    IN IF alpha.kind = "float" THEN [raised |-> "IndexError"]
       ELSE IF index >= len \/ index < -len THEN [raised |-> "IndexError"]
       ELSE [raised |-> "none",
             ret |-> m.points[n][IF index < 0 THEN index + len + 1 ELSE index + 1]]

(* ------------------------------- PGroup -------------------------------- *)

\* the objects handed to PGroup: the PMobject nodes and, as 0, a Mobject that is
\* no PMobject
Objects == Nodes \cup {0}

\* isinstance(m, PMobject)
IsPMobject(o) == o \in Nodes

\* PGroup.check_pmobs(self, *pmobs): TRUE when it raises
check_pmobs(self, pmobs) == ~(\A i \in 1..Len(pmobs) : IsPMobject(pmobs[i]))

\* Mobject.add(*mobjects) on a new instance
add(children, mobjects) == children \o mobjects

\* PGroup.from_pmobs(*pmobs): cls.check_pmobs(*pmobs) calls the plain function, so
\* the first pmob is bound to self and the others are checked
from_pmobs(pmobs) ==
    IF pmobs = <<>> THEN [raised |-> "TypeError", attached |-> <<>>]
    ELSE IF check_pmobs(Head(pmobs), Tail(pmobs))
    THEN [raised |-> "Exception", attached |-> <<>>]
    ELSE [raised |-> "none", attached |-> add(<<>>, pmobs)]

(* ------------------------------ scenes --------------------------------- *)

DEFAULT_STROKE_WIDTH == 3 * One

\* the clouds a node is built with: the first k entries of
\* add_points(Template points, rgbas=Template colours)
TemplatePoints == <<(<<1, 0, 0>>), (<<0, 0, 0>>), (<<0, 1, 0>>), (<<1, 0, 0>>), (<<0, 0, 0>>)>>

TemplateColors == <<"RED", "WHITE", "BLACK", "WHITE", "RED">>

CloudPoints(k) == [i \in 1..k |-> TemplatePoints[((i - 1) % 5) + 1]]

CloudRgbas(k) == [i \in 1..k |-> color_to_rgba(TemplateColors[((i - 1) % 5) + 1], One)]

\* the hierarchies: a chain 1 > 2 > 3, a fan 1 > {2, 3}, three separate nodes
Chain == (1 :> <<2>>) @@ (2 :> <<3>>) @@ (3 :> <<>>)

Fan == (1 :> <<2, 3>>) @@ (2 :> <<>>) @@ (3 :> <<>>)

Flat == [n \in Nodes |-> <<>>]

Shapes == {Chain, Fan, Flat}

NoCall == [op |-> "none", raised |-> "none"]

InitScene(shapes, lens) ==
    /\ \E k \in [Nodes -> lens] :
          /\ points = [n \in Nodes |-> CloudPoints(k[n])]
          /\ store = [n \in BufIds |-> CloudRgbas(k[n])]
          /\ rgbas = [n \in Nodes |-> [b |-> n, lo |-> 0, hi |-> k[n]]]
    /\ color \in [Nodes -> {"WHITE"}]
    /\ stroke_width = [n \in Nodes |-> DEFAULT_STROKE_WIDTH]
    /\ submobjects \in shapes
    /\ last = NoCall
    /\ steps = 0

\* the numbers of points the nodes are built with
InitLens == {0, 2, 3}

Init == InitScene(Shapes, InitLens)

(* ------------------------------ actions -------------------------------- *)

\* a public call returned or raised: the memory is what the call left
Call(r, call) ==
    /\ steps < MaxSteps
    /\ steps' = steps + 1
    /\ points' = r.mem.points
    /\ rgbas' = r.mem.rgbas
    /\ store' = r.mem.store
    /\ color' = r.mem.color
    /\ stroke_width' = r.mem.stroke_width
    /\ submobjects' = r.mem.submobjects
    /\ last' = call @@ [raised |-> r.raised]

\* a call that leaves the memory alone: what it returned or raised is recorded
Query(call) ==
    /\ steps < MaxSteps
    /\ steps' = steps + 1
    /\ UNCHANGED <<points, rgbas, store, color, stroke_width, submobjects>>
    /\ last' = call

NewPoints == {<<(<<0, 0, 0>>)>>, <<(<<1, 0, 0>>), (<<0, 1, 0>>)>>}

NewRgbas == {<<color_to_rgba("RED", One)>>,
             <<color_to_rgba("RED", Half), color_to_rgba("BLACK", One)>>}

\* a and b of pointwise_become_partial, in units of 1 / One: 0, 1/4, 1/2, 1
Proportions == {0, 1, Half, One}

\* alpha of point_from_proportion: the ints 0 and 1, the floats 0.0, 0.25, 0.5, 1.0
Alphas == {[kind |-> "int", num |-> 0], [kind |-> "int", num |-> 1]}
          \cup {[kind |-> "float", num |-> a] : a \in Proportions}

ResetPoints(T) ==
    \E n \in T :
        Call(reset_points(Mem, n), [op |-> "reset_points", self |-> n])

AddPointsColored(T) ==
    \E n \in T, pts \in NewPoints, col \in {None, "RED"}, alpha \in {Half, One} :
        Call(add_points_colored(Mem, n, pts, col, alpha),
             [op |-> "add_points", self |-> n, points |-> pts, with_rgbas |-> FALSE,
              color |-> col, alpha |-> alpha])

AddPointsRgbas(T) ==
    \E n \in T, pts \in NewPoints, new \in NewRgbas :
        Call(add_points_rgbas(Mem, n, pts, new),
             [op |-> "add_points", self |-> n, points |-> pts, with_rgbas |-> TRUE,
              rgbas |-> new])

SetColor(T, F) ==
    \E n \in T, col \in {"RED", "BLACK"}, family \in F :
        Call(set_color(Mem, n, col, family),
             [op |-> "set_color", self |-> n, color |-> col, family |-> family])

FilterOut(T) ==
    \E n \in T, c \in Conditions :
        Call(filter_out(Mem, n, c), [op |-> "filter_out", self |-> n, condition |-> c])

ThinOut(T) ==
    \E n \in T, factor \in {2, 3} :
        Call(thin_out(Mem, n, factor), [op |-> "thin_out", self |-> n, factor |-> factor])

RECURSIVE SortChoicesOver(_, _, _)

\* for every node of S an index array: one that argsort may return for a family
\* member with points, the empty one for the other nodes
SortChoicesOver(S, mobs, fn) ==
    IF S = {} THEN {<<>>}
    ELSE LET k == Min(S)
             mine == IF k \in mobs THEN Argsorts(points[k], fn) ELSE {<<>>}
         IN {(k :> ix) @@ rest : ix \in mine, rest \in SortChoicesOver(S \ {k}, mobs, fn)}

SortChoices(n, fn) == SortChoicesOver(Nodes, Range(family_members_with_points(Mem, n)), fn)

SortPoints(T, K) ==
    \E n \in T, fn \in K :
        /\ steps < MaxSteps
        /\ \A k \in Range(get_family(Mem, n)) : Len(points[k]) <= MaxSortLen
        /\ \E indices \in SortChoices(n, fn) :
              Call(sort_points(Mem, n, indices),
                   [op |-> "sort_points", self |-> n, function |-> fn, indices |-> indices])

FadeTo(T, A) ==
    \E n \in T, col \in {"BLACK"}, alpha \in A :
        Call(Ok(fade_to(Mem, n, col, alpha, 0)),
             [op |-> "fade_to", self |-> n, color |-> col, alpha |-> alpha])

IngestSubmobjects(T) ==
    \E n \in T :
        Call(ingest_submobjects(Mem, n), [op |-> "ingest_submobjects", self |-> n])

AlignPointsWithLarger(T) ==
    \E n \in T : \E larger \in Nodes \ {n} :
        Call(align_points_with_larger(Mem, n, larger),
             [op |-> "align_points_with_larger", self |-> n, mobject |-> larger])

MatchColors(T) ==
    \E n \in T : \E mobject \in Nodes \ {n} :
        /\ submobjects[n] = <<>> /\ submobjects[mobject] = <<>>
        /\ points[n] # <<>> /\ points[mobject] # <<>>
        /\ Call(match_colors(Mem, n, mobject),
                [op |-> "match_colors", self |-> n, mobject |-> mobject])

InterpolateColor(T) ==
    \E n \in T : \E mobject1 \in Nodes \ {n}, mobject2 \in Nodes \ {n}, alpha \in {Half} :
        /\ mobject1 < mobject2
        /\ Call(interpolate_color(Mem, n, mobject1, mobject2, alpha),
                [op |-> "interpolate_color", self |-> n, mobject1 |-> mobject1,
                 mobject2 |-> mobject2, alpha |-> alpha])

PointwiseBecomePartial(T, M, P) ==
    \E n \in T, mobject \in M, a \in P, b \in P :
        /\ a <= b
        /\ Call(pointwise_become_partial(Mem, n, mobject, a, b),
                [op |-> "pointwise_become_partial", self |-> n, mobject |-> mobject,
                 a |-> a, b |-> b])

PointFromProportion(T) ==
    \E n \in T, alpha \in Alphas :
        Query([op |-> "point_from_proportion", self |-> n, alpha |-> alpha]
              @@ point_from_proportion(Mem, n, alpha))

\* the argument lists of from_pmobs: up to two objects
PmobLists == UNION {[1..k -> Objects] : k \in 0..2}

FromPmobs(L) ==
    \E pmobs \in L :
        Query([op |-> "from_pmobs", pmobs |-> pmobs] @@ from_pmobs(pmobs))

Next ==
    \/ ResetPoints(Nodes)
    \/ AddPointsColored({1})
    \/ AddPointsRgbas({1, 2})
    \/ SetColor(Nodes, BOOLEAN)
    \/ FilterOut(Nodes)
    \/ ThinOut(Nodes)
    \/ SortPoints(Nodes, {"x"})
    \/ FadeTo(Nodes, {Half})
    \/ IngestSubmobjects(Nodes)
    \/ AlignPointsWithLarger(Nodes)
    \/ MatchColors(Nodes)
    \/ InterpolateColor(Nodes)
    \/ PointwiseBecomePartial(Nodes, Nodes, {0, One})
    \/ PointFromProportion({1})
    \/ FromPmobs(PmobLists)

\* every public operation, on every node
Spec == Init /\ [][Next]_vars

\* add_points on a node whose base colour set_color changes
NextAdd ==
    \/ ResetPoints({1})
    \/ AddPointsColored({1})
    \/ AddPointsRgbas({1})
    \/ SetColor({1}, BOOLEAN)

SpecAdd == Init /\ [][NextAdd]_vars

\* filter_out on families with a member whose add_points raised and a member
\* that is a view of another
NextFilter ==
    \/ FilterOut(Nodes)
    \/ AddPointsRgbas({2})
    \/ PointwiseBecomePartial({3}, {2}, {0, Half, One})

SpecFilter == Init /\ [][NextFilter]_vars

\* pointwise_become_partial between nodes without submobjects
NextPartial ==
    \/ PointwiseBecomePartial({1}, {1, 2}, Proportions)
    \/ AddPointsRgbas({2})
    \/ SetColor({2}, {FALSE})

SpecPartial == InitScene({Flat}, InitLens) /\ [][NextPartial]_vars

\* fade_to on every hierarchy
NextFade ==
    \/ FadeTo(Nodes, {0, Half, One})
    \/ AddPointsRgbas({3})
    \/ PointwiseBecomePartial({3}, {1}, {0, One})

SpecFade == Init /\ [][NextFade]_vars

\* sort_points on every hierarchy
NextSort ==
    \/ SortPoints(Nodes, Keys)
    \/ AddPointsRgbas({2})
    \/ ResetPoints({1})

SpecSort == Init /\ [][NextSort]_vars

(* ------------------------------- claims -------------------------------- *)

\* node k's arrays are what they were before the step
Same(k) == points'[k] = points[k] /\ RgbasOf(Mem', k) = RgbasOf(Mem, k)

\* node k holds as many colours as points
WellFormed(k) == Len(points[k]) = Len(RgbasOf(Mem, k))

\* the family members with points of node n, before the step
Members(n) == Range(family_members_with_points(Mem, n))

\* the entries of arr at the positions i where keep[i] holds, in their order
Rank(keep, i) == Cardinality({j \in 1..i : keep[j]})

Kept(arr, keep) ==
    [r \in 1..Rank(keep, Len(keep)) |->
        arr[CHOOSE i \in 1..Len(keep) : keep[i] /\ Rank(keep, i) = r]]

\* the positions of pts where the condition has the given value
Where(pts, c, value) == [i \in 1..Len(pts) |-> Condition(c, pts[i]) = value]

\* C1: every listed mutating call, returned or raised, leaves len(points) equal to
\* len(rgbas) on every node that had them equal
ListedMutators ==
    {"reset_points", "add_points", "set_color", "match_colors", "filter_out", "thin_out",
     "sort_points", "fade_to", "ingest_submobjects", "align_points_with_larger",
     "pointwise_become_partial"}

LengthsStayEqual ==
    [][((\A n \in Nodes : WellFormed(n)) /\ last'.op \in ListedMutators)
         => \A n \in Nodes : Len(points'[n]) = Len(RgbasOf(Mem', n))]_vars

\* C2: add_points without rgbas appends the N points in order and N copies of the
\* rgba of the color argument, or of the node's base colour when none is given,
\* and keeps what the node held
AddPointsAppends ==
    [][(last'.op = "add_points" /\ ~last'.with_rgbas)
         => LET n == last'.self
                c == IF last'.color # None THEN last'.color ELSE color[n]
            IN /\ last'.raised = "none"
               /\ points'[n] = points[n] \o last'.points
               /\ RgbasOf(Mem', n) =
                     RgbasOf(Mem, n)
                        \o [i \in 1..Len(last'.points) |-> color_to_rgb(c) \o <<last'.alpha>>]
               /\ Len(points'[n]) = Len(points[n]) + Len(last'.points)
               /\ \A k \in Nodes \ {n} : Same(k)]_vars

\* a node already holding points, recoloured by set_color, got two points without
\* a color argument
AddPointsWitness ==
    /\ last.op = "add_points" /\ ~last.with_rgbas /\ last.color = None
    /\ Len(last.points) = 2
    /\ color[last.self] = "RED"
    /\ Len(points[last.self]) > 2
    /\ RgbasOf(Mem, last.self)[Len(points[last.self])] = <<One, 0, 0, last.alpha>>

\* what filter_out leaves of a family whose members hold as many colours as
\* points: in every member the points where the condition has the value `keeps`
FilterOutKeeps(keeps) ==
    (last'.op = "filter_out" /\ \A k \in Members(last'.self) : WellFormed(k))
      => /\ last'.raised = "none"
         /\ \A k \in Nodes :
               IF k \in Members(last'.self)
               THEN /\ points'[k] = Kept(points[k], Where(points[k], last'.condition, keeps))
                    /\ RgbasOf(Mem', k) =
                          Kept(RgbasOf(Mem, k), Where(points[k], last'.condition, keeps))
               ELSE Same(k)

\* C3 as stated: filter_out keeps the points for which the condition is true
FilterOutKeepsTrue == [][FilterOutKeeps(TRUE)]_vars

\* C3 amended: filter_out removes the points for which the condition is true and
\* keeps the others, each with its colour, in their order
FilterOutKeepsFalse == [][FilterOutKeeps(FALSE)]_vars

\* filter_out by x < 1 left a node built with three points its one point at x = 1
FilterOutWitness ==
    /\ last.op = "filter_out" /\ last.condition = "x_lt_1" /\ steps = 1
    /\ points[last.self] = <<(<<1, 0, 0>>)>>
    /\ RgbasOf(Mem, last.self) = <<(<<One, 0, 0, One>>)>>
    /\ \E k \in Nodes \ {last.self} : Len(points[k]) = 3

\* C4: thin_out keeps, in every family member with points, the entries at that
\* member's indices 0, factor, 2 * factor, ..., and raises nothing
ThinOutKeepsEveryNth ==
    [][(last'.op = "thin_out" /\ \A k \in Members(last'.self) : WellFormed(k))
         => /\ last'.raised = "none"
            /\ \A k \in Members(last'.self) :
                  LET nth == [i \in 1..Len(points[k]) |-> (i - 1) % last'.factor = 0]
                  IN /\ points'[k] = Kept(points[k], nth)
                     /\ RgbasOf(Mem', k) = Kept(RgbasOf(Mem, k), nth)]_vars

\* C5: from_pmobs raises the type error and attaches nothing when any member is
\* no PMobject, and otherwise attaches the members in order
FromPmobsChecksEveryMember ==
    last.op = "from_pmobs"
      => IF \E i \in 1..Len(last.pmobs) : ~IsPMobject(last.pmobs[i])
         THEN last.raised = "Exception" /\ last.attached = <<>>
         ELSE last.raised = "none" /\ last.attached = last.pmobs

\* round(num / den), ties to the even integer as Python rounds
Round(num, den) ==
    LET q == num \div den
        r == num % den
    IN IF 2 * r < den THEN q
       ELSE IF 2 * r > den THEN q + 1
       ELSE IF q % 2 = 0 THEN q ELSE q + 1

\* C6: point_from_proportion(alpha) on a node with points returns the point at
\* index round(alpha * (N - 1))
PointFromProportionRounds ==
    (last.op = "point_from_proportion" /\ Len(points[last.self]) >= 1)
      => LET n == last.self
             alpha == IF last.alpha.kind = "int" THEN last.alpha.num * One ELSE last.alpha.num
         IN /\ last.raised = "none"
            /\ last.ret = points[n][Round(alpha * (Len(points[n]) - 1), One) + 1]

\* floor(num / One * count)
FloorOf(num, count) == CHOOSE q \in 0..count : q * One <= num * count /\ num * count < (q + 1) * One

\* C7: pointwise_become_partial(mobject, a, b) sets the points and the colours of
\* self to mobject's entries at the indices floor(a * N) up to floor(b * N), N the
\* number of mobject's points, and leaves mobject's arrays alone
PartialIsSliceOfMobject ==
    [][last'.op = "pointwise_become_partial"
         => LET n == last'.self
                mob == last'.mobject
                lo == FloorOf(last'.a, Len(points[mob]))
                hi == FloorOf(last'.b, Len(points[mob]))
            IN /\ last'.raised = "none"
               /\ points'[n] = [i \in 1..(hi - lo) |-> points[mob][lo + i]]
               /\ Len(points'[n]) = hi - lo
               /\ RgbasOf(Mem', n) =
                     [i \in 1..Len(RgbasOf(Mem', n)) |-> RgbasOf(Mem, mob)[lo + i]]
               /\ Len(RgbasOf(Mem', n)) =
                     Cardinality({i \in (lo + 1)..hi : i <= Len(RgbasOf(Mem, mob))})
               /\ \A k \in Nodes \ {n} : Same(k)]_vars

\* the second half of a three-point node became the two entries of another node
PartialWitness ==
    /\ last.op = "pointwise_become_partial" /\ last.self # last.mobject
    /\ last.a = Half /\ last.b = One /\ steps = 1
    /\ Len(points[last.mobject]) = 3
    /\ points[last.self] = SubSeq(points[last.mobject], 2, 3)
    /\ RgbasOf(Mem, last.self) = SubSeq(RgbasOf(Mem, last.mobject), 2, 3)

\* the nodes the last call read arrays from
Sources(l) ==
    IF l.op \in {"match_colors", "pointwise_become_partial"} THEN {l.mobject}
    ELSE IF l.op = "interpolate_color" THEN {l.mobject1, l.mobject2}
    ELSE {}

\* call l mutates node x alone
MutatesAlone(l, x) ==
    /\ l.op \in {"set_color", "fade_to", "sort_points", "filter_out", "thin_out"}
    /\ l.self = x
    /\ IF l.op = "set_color" THEN ~l.family ELSE submobjects[x] = <<>>

\* C8: after X.match_colors(Y), X.interpolate_color(Y, Z, alpha) or
\* X.pointwise_become_partial(Y, a, b), a mutation of X alone leaves Y's arrays as
\* they were, and a mutation of Y alone leaves X's
NoSharedStorage ==
    [][(Sources(last) # {} /\ last.raised = "none")
         => \A y \in Sources(last) \ {last.self} :
               /\ MutatesAlone(last', last.self) => Same(y)
               /\ MutatesAlone(last', y) => Same(last.self)]_vars

\* what fade_to does to the nodes of `reached` and to no other node
FadeToChanges(reached) ==
    \A k \in Nodes :
        /\ points'[k] = points[k]
        /\ IF k \in reached
           THEN RgbasOf(Mem', k) =
                   [i \in 1..Len(RgbasOf(Mem, k)) |->
                       [j \in 1..4 |->
                           ((One - last'.alpha) * RgbasOf(Mem, k)[i][j]
                              + last'.alpha * (color_to_rgb(last'.color) \o <<One>>)[j])
                           \div One]]
           ELSE RgbasOf(Mem', k) = RgbasOf(Mem, k)

\* C9 as stated: fade_to changes the node and its immediate children only
FadeToStopsAtChildren ==
    [][last'.op = "fade_to"
         => FadeToChanges({last'.self} \cup Range(submobjects[last'.self]))]_vars

\* C9 amended: fade_to changes the node and every descendant, at any depth
FadeToReachesFamily ==
    [][last'.op = "fade_to" => FadeToChanges(Range(get_family(Mem, last'.self)))]_vars

\* fade_to(BLACK, 0.5) on the head of the chain 1 > 2 > 3 halved the red of the
\* grandchild's first colour
FadeToWitness ==
    /\ last.op = "fade_to" /\ last.self = 1 /\ last.alpha = Half /\ steps = 1
    /\ submobjects = Chain
    /\ Len(points[3]) = 3
    /\ RgbasOf(Mem, 3)[1] = <<Half, 0, 0, One>>

\* perm reorders the arrays of node k, and the keys are in order afterwards
SortedBy(k, perm, fn) ==
    /\ points'[k] = [i \in 1..Len(perm) |-> points[k][perm[i] + 1]]
    /\ RgbasOf(Mem', k) = [i \in 1..Len(perm) |-> RgbasOf(Mem, k)[perm[i] + 1]]
    /\ \A i \in 1..(Len(perm) - 1) : Key(fn, points'[k][i]) <= Key(fn, points'[k][i + 1])

\* perm keeps the order of the points with equal keys
Stable(k, perm, fn) ==
    \A i, j \in 1..Len(perm) :
        (i < j /\ Key(fn, points[k][perm[i] + 1]) = Key(fn, points[k][perm[j] + 1]))
          => perm[i] < perm[j]

\* what sort_points does to a family whose members hold as many colours as points
SortPointsBy(stable) ==
    (last'.op = "sort_points" /\ \A k \in Members(last'.self) : WellFormed(k))
      => /\ last'.raised = "none"
         /\ \A k \in Nodes :
               IF k \in Members(last'.self)
               THEN \E perm \in PermutationsOf(Len(points[k])) :
                       /\ SortedBy(k, perm, last'.function)
                       /\ stable => Stable(k, perm, last'.function)
               ELSE Same(k)

\* C10 as stated: one permutation for points and colours, keys non-decreasing,
\* and points with equal keys in their previous order
SortPointsIsStable == [][SortPointsBy(TRUE)]_vars

\* C10 amended: one permutation for points and colours, keys non-decreasing
SortPointsSortsPairs == [][SortPointsBy(FALSE)]_vars

\* sort_points by x reordered a node built with three points, colours along
SortPointsWitness ==
    /\ last.op = "sort_points" /\ last.function = "x" /\ steps = 1
    /\ Len(points[last.self]) = 3
    /\ points[last.self][3] = <<1, 0, 0>>
    /\ RgbasOf(Mem, last.self)[3] = <<One, 0, 0, One>>

====
